---- MODULE Spec2Model ----
(***************************************************************************)
(* Model of src/handler.ts of dummy-sls: the country table, the neighbor   *)
(* table and the handlers addCountry, addNeighbors and                     *)
(* getAllCountriesPaginated.                                               *)
(*                                                                         *)
(* The two DynamoDB tables are modelled as read-after-write consistent     *)
(* and never failing.  A handler is split at its awaited store operations: *)
(* the code between two awaits runs atomically, and calls of different     *)
(* requests interleave at the awaits.  The fields puts and before of a     *)
(* call and the variable hist record history only: the items the call has  *)
(* put, the neighbor table the call started from, and the order of the     *)
(* calls.  No handler reads them.                                          *)
(***************************************************************************)
EXTENDS Integers, Sequences, FiniteSets, Bags, TLC

\* ------------------------------------------------------------------ bounds
\* Most countries the country table holds.
MaxCountries == 2
\* Number of addNeighbors requests.
NumCalls == 2
\* Longest "neighbors" list in the body of an addNeighbors request.
MaxNeighbors == 2
\* Most countries the country table holds when it is listed.
MaxListed == 3

Calls == 1..NumCalls

\* Identifiers a client may send: 0 is never assigned to a country, the
\* others are assigned by addCountry in increasing order.
IdSpace == 0..MaxCountries

RECURSIVE SeqsUpTo(_, _)
SeqsUpTo(S, n) ==
    IF n = 0 THEN {<<>>}
    ELSE LET shorter == SeqsUpTo(S, n - 1)
         IN  shorter \cup {Append(s, x) : s \in {t \in shorter : Len(t) = n - 1}, x \in S}

Range(s) == {s[k] : k \in 1..Len(s)}

\* ------------------------------------------------------------------ state
VARIABLES
    CountryTable,     \* set of country items, keyed by countryID
    NeighborsTable,   \* bag of neighbor items, keyed by (countryID, neighborId)
    call,             \* call[p]: the locals of addNeighbors request p
    addCountryResult, \* status code of the last addCountry response
    listing,          \* the last getAllCountriesPaginated request and its answer
    hist,             \* history: which calls ran back to back, which raced
    issued,           \* number of identifiers v4() has produced
    neighborsCall     \* the locals of the getCountryNeighbors request

vars == <<CountryTable, NeighborsTable, call, addCountryResult, listing, hist,
          issued, neighborsCall>>

\* ------------------------------------------------------------- the store
\* Key schema of NeighborsTable: HASH countryID, RANGE neighborId.
NeighborKey(item) == <<item.countryID, item.neighborId>>

\* Faulty variant of PutItem: the item is stored next to the items it has
\* the key of.
PutItemAppend(table, item) == table (+) SetToBag({item})

\* DocumentClient.put: the item replaces every item with the same key.
PutItem(table, item) ==
    LET others == {it \in BagToSet(table) : NeighborKey(it) # NeighborKey(item)}
    IN  [it \in others \cup {item} |-> IF it = item THEN 1 ELSE table[it]]

\* DocumentClient.get on NeighborsTable: the items stored under the key.
GetItem(table, countryID, neighborId) ==
    {it \in BagToSet(table) : NeighborKey(it) = <<countryID, neighborId>>}

CountryIds(table) == {c.countryID : c \in table}

\* Faulty variant of fetchCountryById: it never throws.
fetchCountryByIdAlways(id) == TRUE

\* fetchCountryById: TRUE when output.Item is set, FALSE when it throws
\* HttpError(404).
fetchCountryById(id) == id \in CountryIds(CountryTable)

\* fetchAllCountryIds: the countryID of every scanned item.
fetchAllCountryIds == CountryIds(CountryTable)

\* Faulty variant of fetchNeighbor: it never finds an item.
fetchNeighborNever(countryID, neighborId) == FALSE

\* fetchNeighbor: output.Item is truthy exactly when an item is stored.
fetchNeighbor(countryID, neighborId) ==
    GetItem(NeighborsTable, countryID, neighborId) # {}

\* Faulty variant of addNeighbor: the two keys are swapped.
addNeighborReversed(countryID, neighborId) ==
    [countryID |-> neighborId, neighborId |-> countryID]

\* addNeighbor: the item that is put.
addNeighbor(countryID, neighborId) ==
    [countryID |-> countryID, neighborId |-> neighborId]

\* ---------------------------------------------------------- addNeighbors
NoResult == [statusCode |-> 0, message |-> "", neighbors |-> <<>>, errors |-> <<>>]

IdleCall ==
    [pc |-> "idle", countryID |-> 0, neighborData |-> <<>>, country |-> FALSE,
     existingCountryIds |-> {}, errors |-> <<>>, successfulAdditions |-> <<>>,
     i |-> 1, puts |-> <<>>, before |-> EmptyBag, result |-> NoResult]

InvalidError(neighborId) == [text |-> "Invalid neighbor country ID", id |-> neighborId]
ExistsError(neighborId) == [text |-> "Neighbor already exists for this country", id |-> neighborId]

\* The catch block: the status code of the thrown error.
CatchResult(statusCode) ==
    [statusCode |-> statusCode, message |-> "Internal Server Error",
     neighbors |-> <<>>, errors |-> <<>>]

\* Faulty variant of LoopResult: any error makes the call fail.
LoopResultByErrors(c) ==
    IF Len(c.errors) # 0
    THEN [statusCode |-> 400, message |-> "Failed to add neighbors",
          neighbors |-> <<>>, errors |-> c.errors]
    ELSE [statusCode |-> 200, message |-> "Neighbors added successfully",
          neighbors |-> c.successfulAdditions, errors |-> c.errors]

\* The response after the loop: 400 when nothing was added, 200 otherwise.
LoopResult(c) ==
    IF Len(c.successfulAdditions) = 0
    THEN [statusCode |-> 400, message |-> "Failed to add neighbors",
          neighbors |-> <<>>, errors |-> c.errors]
    ELSE [statusCode |-> 200, message |-> "Neighbors added successfully",
          neighbors |-> c.successfulAdditions, errors |-> c.errors]

\* Faulty variant of RunLoop: the first identifier that is not in
\* existingCountryIds ends the loop.
RunLoopBreak(c) ==
    IF c.i > Len(c.neighborData)
    THEN [c EXCEPT !.pc = "done", !.result = LoopResult(c)]
    ELSE IF c.neighborData[c.i] \notin c.existingCountryIds
    THEN LET d == [c EXCEPT !.errors = Append(@, InvalidError(c.neighborData[c.i])),
                            !.i = Len(c.neighborData) + 1]
         IN  [d EXCEPT !.pc = "done", !.result = LoopResult(d)]
    ELSE [c EXCEPT !.pc = "fetchNeighbor"]

\* Faulty variant of RunLoop: existingCountryIds is not consulted.
RunLoopNoCheck(c) ==
    IF c.i > Len(c.neighborData)
    THEN [c EXCEPT !.pc = "done", !.result = LoopResult(c)]
    ELSE [c EXCEPT !.pc = "fetchNeighbor"]

\* The loop from element c.i up to its next await (fetchNeighbor) or to the
\* return: an identifier that is not in existingCountryIds gets an error and
\* the loop continues.
RECURSIVE RunLoop(_)
RunLoop(c) ==
    IF c.i > Len(c.neighborData)
    THEN [c EXCEPT !.pc = "done", !.result = LoopResult(c)]
    ELSE IF c.neighborData[c.i] \notin c.existingCountryIds
    THEN RunLoop([c EXCEPT !.errors = Append(@, InvalidError(c.neighborData[c.i])),
                           !.i = @ + 1])
    ELSE [c EXCEPT !.pc = "fetchNeighbor"]

\* History bookkeeping of a step of call p (p = 0: a step of addCountry):
\* every other running call is no longer alone, and the step is the latest
\* completion when it completes p.
Running(p) == call[p].pc \notin {"idle", "done"}

Step(p, completes) ==
    [hist EXCEPT !.lastDone = IF completes THEN p ELSE 0,
                 !.alone = [q \in Calls |-> IF q # p /\ Running(q) THEN FALSE ELSE @[q]]]

\* The other calls that have passed the duplicate check for the relation and
\* have not yet written it.
AboutToPut(p, countryID, neighborId) ==
    {q \in Calls \ {p} : /\ call[q].pc = "addNeighbor"
                          /\ call[q].countryID = countryID
                          /\ call[q].neighborData[call[q].i] = neighborId}

\* The request arrives: path parameter and parsed body.
AddNeighborsStart(p, countryID, neighborData) ==
    /\ call[p].pc = "idle"
    /\ call' = [call EXCEPT ![p] = [IdleCall EXCEPT !.pc = "fetchCountryById",
                                                    !.countryID = countryID,
                                                    !.neighborData = neighborData,
                                                    !.before = NeighborsTable]]
    /\ hist' = [Step(p, FALSE) EXCEPT !.after[p] = hist.lastDone, !.alone[p] = TRUE]
    /\ UNCHANGED <<CountryTable, NeighborsTable, addCountryResult, listing, issued, neighborsCall>>

\* await fetchCountryById(countryID): HttpError(404) goes to the catch block.
AddNeighborsFetchCountry(p) ==
    /\ call[p].pc = "fetchCountryById"
    /\ IF fetchCountryById(call[p].countryID)
       THEN call' = [call EXCEPT ![p].pc = "fetchAllCountryIds", ![p].country = TRUE]
       ELSE call' = [call EXCEPT ![p].pc = "done", ![p].result = CatchResult(404)]
    /\ hist' = Step(p, call'[p].pc = "done")
    /\ UNCHANGED <<CountryTable, NeighborsTable, addCountryResult, listing, issued, neighborsCall>>

\* await fetchAllCountryIds(), then the loop up to its first await.
AddNeighborsFetchAllCountryIds(p) ==
    /\ call[p].pc = "fetchAllCountryIds"
    /\ call' = [call EXCEPT ![p] = RunLoop([@ EXCEPT !.existingCountryIds = fetchAllCountryIds])]
    /\ hist' = Step(p, call'[p].pc = "done")
    /\ UNCHANGED <<CountryTable, NeighborsTable, addCountryResult, listing, issued, neighborsCall>>

\* await fetchNeighbor(countryID, neighborId): an existing relation gets an
\* error and the loop continues, otherwise the put is next.
AddNeighborsFetchNeighbor(p) ==
    LET c == call[p]
        neighborId == c.neighborData[c.i]
    IN  /\ c.pc = "fetchNeighbor"
        /\ IF fetchNeighbor(c.countryID, neighborId)
           THEN call' = [call EXCEPT ![p] =
                           RunLoop([c EXCEPT !.errors = Append(@, ExistsError(neighborId)),
                                             !.i = @ + 1])]
           ELSE call' = [call EXCEPT ![p].pc = "addNeighbor"]
        /\ hist' = [Step(p, call'[p].pc = "done") EXCEPT
                       !.raced = IF call'[p].pc = "addNeighbor"
                                 THEN @ \cup {[calls |-> {p, q}, countryID |-> c.countryID,
                                               neighborId |-> neighborId] :
                                                 q \in AboutToPut(p, c.countryID, neighborId)}
                                 ELSE @]
        /\ UNCHANGED <<CountryTable, NeighborsTable, addCountryResult, listing, issued, neighborsCall>>

\* await addNeighbor(countryID, neighborId), successfulAdditions.push, and
\* the loop up to its next await.
AddNeighborsAddNeighbor(p) ==
    LET c == call[p]
        neighborId == c.neighborData[c.i]
        item == addNeighbor(c.countryID, neighborId)
    IN  /\ c.pc = "addNeighbor"
        /\ NeighborsTable' = PutItem(NeighborsTable, item)
        /\ call' = [call EXCEPT ![p] =
                      RunLoop([c EXCEPT !.successfulAdditions = Append(@, neighborId),
                                        !.puts = Append(@, item),
                                        !.i = @ + 1])]
        /\ hist' = Step(p, call'[p].pc = "done")
        /\ UNCHANGED <<CountryTable, addCountryResult, listing, issued, neighborsCall>>

\* ------------------------------------------------------------ addCountry
RequiredFields == {"name", "capital", "region", "currency"}

\* countrySchema.validate: the four required strings are present.
countrySchema(country) == RequiredFields \subseteq DOMAIN country

\* The stored item: the request's fields and a fresh countryID (v4()): the
\* issued-th identifier is the number issued, so no identifier comes twice.
WithCountryID(country, id) ==
    [k \in DOMAIN country \cup {"countryID"} |->
        IF k = "countryID" THEN id ELSE country[k]]

\* addCountry: every element is validated before anything is written, then
\* one batchWrite stores them all; any failure answers 500.
AddCountry(requestBody, cap) ==
    /\ issued + Len(requestBody) <= cap
    /\ IF \A k \in 1..Len(requestBody) : countrySchema(requestBody[k])
       THEN /\ CountryTable' = CountryTable \cup
                   {WithCountryID(requestBody[k], issued + k) :
                        k \in 1..Len(requestBody)}
            /\ issued' = issued + Len(requestBody)
            /\ addCountryResult' = 201
       ELSE /\ addCountryResult' = 500
            /\ UNCHANGED <<CountryTable, issued>>
    /\ hist' = Step(0, FALSE)
    /\ UNCHANGED <<NeighborsTable, call, listing, neighborsCall>>

\* ------------------------------------------------------ failing requests
\* class HttpError: the status code, and JSON.stringify(body) as message.
HttpError(statusCode, body) == [statusCode |-> statusCode, message |-> body]

\* What a rejected promise of the DocumentClient carries.  The catch blocks
\* read statusCode and message of whatever was thrown: the status code is
\* the one the service answered with (400 for a rejected operation, 500 for
\* a fault of the service), and there is none when the service was not
\* reached.  statusCode 0 stands for a statusCode that is undefined.
StoreErrors ==
    {[statusCode |-> 0, message |-> "NetworkingError"],
     [statusCode |-> 400, message |-> "ProvisionedThroughputExceededException"],
     [statusCode |-> 500, message |-> "InternalServerError"]}

\* addNeighbors: one of its awaited store operations rejects, and the catch
\* block answers.  The rejected operation leaves the store as it was.
AddNeighborsStoreFails(p, error) ==
    /\ call[p].pc \in {"fetchCountryById", "fetchAllCountryIds", "fetchNeighbor", "addNeighbor"}
    /\ call' = [call EXCEPT ![p].pc = "done", ![p].result = CatchResult(error.statusCode)]
    /\ hist' = Step(p, TRUE)
    /\ UNCHANGED <<CountryTable, NeighborsTable, addCountryResult, listing, issued, neighborsCall>>

\* An item of CountryTable is deleted.  No handler deletes; the role the
\* handlers run under may (dynamodb:DeleteItem on CountryTable), and the
\* relations that name the country stay.
DeleteCountryItem(id) ==
    /\ id \in CountryIds(CountryTable)
    /\ CountryTable' = {c \in CountryTable : c.countryID # id}
    /\ hist' = Step(0, FALSE)
    /\ UNCHANGED <<NeighborsTable, call, addCountryResult, listing, issued, neighborsCall>>

\* --------------------------------------------------- getCountryNeighbors
NoNeighborsResult == [statusCode |-> 0, message |-> "", countries |-> <<>>, error |-> ""]

\* missing is history: the neighbor identifiers fetchCountryById found no
\* item for.
IdleNeighborsCall ==
    [pc |-> "idle", countryID |-> 0, country |-> FALSE, neighbors |-> <<>>,
     missing |-> {}, result |-> NoNeighborsResult]

\* The catch block: the status code and the message of the thrown error.
NeighborsCatchResult(error) ==
    [statusCode |-> error.statusCode, message |-> "Some Error",
     countries |-> <<>>, error |-> error.message]

\* The 200 responses: without and with neighbors.
NeighborsResult(neighborCountries) ==
    [statusCode |-> 200,
     message |-> IF neighborCountries = <<>> THEN "Country neighbours"
                 ELSE "Neighbour countries list",
     countries |-> neighborCountries, error |-> ""]

\* The identifiers in increasing order, each as often as stored.
RECURSIVE SortedIds(_)
SortedIds(ids) ==
    IF BagToSet(ids) = {} THEN <<>>
    ELSE LET least == CHOOSE m \in BagToSet(ids) : \A n \in BagToSet(ids) : m <= n
         IN  [k \in 1..CopiesIn(least, ids) |-> least]
                 \o SortedIds([n \in BagToSet(ids) \ {least} |-> ids[n]])

\* fetchNeighborsByCountryId: the neighborId of every item of the partition,
\* in the order of the range key.
fetchNeighborsByCountryId(countryID) ==
    LET items == {it \in BagToSet(NeighborsTable) : it.countryID = countryID}
    IN  SortedIds([n \in {it.neighborId : it \in items} |->
                      NeighborsTable[[countryID |-> countryID, neighborId |-> n]]])

\* output.Item of fetchCountryById(id) when there is one.
CountryItem(id) == CHOOSE c \in CountryTable : c.countryID = id

\* What the response keeps of a neighbor.
NeighborCountry(neighbor) ==
    [id |-> neighbor.countryID, name |-> neighbor.name, currency |-> neighbor.currency,
     capital |-> neighbor.capital, region |-> neighbor.region]

\* The request arrives: the path parameter.
GetCountryNeighborsStart(countryID) ==
    /\ neighborsCall.pc = "idle"
    /\ neighborsCall' = [IdleNeighborsCall EXCEPT !.pc = "fetchCountryById",
                                                  !.countryID = countryID]
    /\ UNCHANGED <<CountryTable, NeighborsTable, call, addCountryResult, listing, hist, issued>>

\* await fetchCountryById(countryID): HttpError(404) goes to the catch block.
GetCountryNeighborsFetchCountry ==
    /\ neighborsCall.pc = "fetchCountryById"
    /\ IF fetchCountryById(neighborsCall.countryID)
       THEN neighborsCall' = [neighborsCall EXCEPT !.pc = "fetchNeighborsByCountryId",
                                                   !.country = TRUE]
       ELSE neighborsCall' =
                [neighborsCall EXCEPT !.pc = "done",
                     !.result = NeighborsCatchResult(HttpError(404, "{\"error\":\"not found\"}"))]
    /\ UNCHANGED <<CountryTable, NeighborsTable, call, addCountryResult, listing, hist, issued>>

\* await fetchNeighborsByCountryId(countryID): no neighbors answers 200 with
\* an empty list.
GetCountryNeighborsFetchNeighbors ==
    LET neighbors == fetchNeighborsByCountryId(neighborsCall.countryID)
    IN  /\ neighborsCall.pc = "fetchNeighborsByCountryId"
        /\ IF Len(neighbors) = 0
           THEN neighborsCall' = [neighborsCall EXCEPT !.pc = "done",
                                                       !.result = NeighborsResult(<<>>)]
           ELSE neighborsCall' = [neighborsCall EXCEPT !.pc = "fetchNeighborCountries",
                                                       !.neighbors = neighbors]
        /\ UNCHANGED <<CountryTable, NeighborsTable, call, addCountryResult, listing, hist, issued>>

\* await Promise.all(neighbors.map(fetchCountryById ...)): the gets are
\* issued together; one HttpError(404) rejects the whole and goes to the
\* catch block, otherwise every neighbor is in the response.
GetCountryNeighborsFetchNeighborCountries ==
    LET neighbors == neighborsCall.neighbors
        missing == {n \in Range(neighbors) : ~ fetchCountryById(n)}
    IN  /\ neighborsCall.pc = "fetchNeighborCountries"
        /\ IF missing = {}
           THEN neighborsCall' =
                    [neighborsCall EXCEPT !.pc = "done",
                         !.result = NeighborsResult([k \in 1..Len(neighbors) |->
                                        NeighborCountry(CountryItem(neighbors[k]))])]
           ELSE neighborsCall' =
                    [neighborsCall EXCEPT !.pc = "done", !.missing = missing,
                         !.result = NeighborsCatchResult(HttpError(404, "{\"error\":\"not found\"}"))]
        /\ UNCHANGED <<CountryTable, NeighborsTable, call, addCountryResult, listing, hist, issued>>

\* getCountryNeighbors: one of its awaited store operations rejects, and the
\* catch block answers.
GetCountryNeighborsStoreFails(error) ==
    /\ neighborsCall.pc \in {"fetchCountryById", "fetchNeighborsByCountryId",
                             "fetchNeighborCountries"}
    /\ neighborsCall' = [neighborsCall EXCEPT !.pc = "done",
                                              !.result = NeighborsCatchResult(error)]
    /\ UNCHANGED <<CountryTable, NeighborsTable, call, addCountryResult, listing, hist, issued>>

\* ----------------------------------------------- getAllCountriesPaginated
\* A string is a sequence of characters; Alphabet lists the characters of
\* the model in increasing code unit order.
Alphabet == <<"(", ")", "/", "0", "1", "2", "3", "4", "5", "6", "7", "8", "9",
              "A", "B", "\\", "a", "b", "c", "e", "r">>

Code(ch) == CHOOSE k \in 1..Len(Alphabet) : Alphabet[k] = ch

Digits == {"0", "1", "2", "3", "4", "5", "6", "7", "8", "9"}

DigitValue(ch) == Code(ch) - Code("0")

\* A JavaScript number: an integer, NaN or Infinity; JSON writes the last two
\* as null.
Num(n) == [t |-> "number", n |-> n]
NaN == [t |-> "NaN", n |-> 0]
Infinity == [t |-> "Infinity", n |-> 0]
Null == [t |-> "null", n |-> 0]

IsNum(x) == x.t = "number"

\* parseInt(string) for a string of the alphabet (no white space, sign or
\* radix prefix): the value of the longest prefix of digits, NaN when that
\* prefix is empty.
RECURSIVE DigitsValue(_, _)
DigitsValue(str, acc) ==
    IF str = <<>> \/ Head(str) \notin Digits THEN acc
    ELSE DigitsValue(Tail(str), 10 * acc + DigitValue(Head(str)))

parseInt(str) ==
    IF str = <<>> \/ Head(str) \notin Digits THEN NaN ELSE Num(DigitsValue(str, 0))

\* x - y, x + y, x * y on the values the handler computes with.
Minus(x, y) == IF IsNum(x) /\ IsNum(y) THEN Num(x.n - y.n) ELSE NaN
Plus(x, y) == IF IsNum(x) /\ IsNum(y) THEN Num(x.n + y.n) ELSE NaN
Times(x, y) == IF IsNum(x) /\ IsNum(y) THEN Num(x.n * y.n) ELSE NaN

\* x < y and x > y: false when either is NaN.
LessThan(x, y) ==
    CASE IsNum(x) /\ IsNum(y) -> x.n < y.n
      [] IsNum(x) /\ y = Infinity -> TRUE
      [] OTHER -> FALSE
GreaterThan(x, y) == LessThan(y, x)

\* Faulty variant of CeilDiv: Math.floor.
FloorDiv(totalCountries, limit) ==
    CASE ~ IsNum(limit) -> NaN
      [] limit.n = 0 -> IF totalCountries = 0 THEN NaN ELSE Infinity
      [] limit.n > 0 -> Num(totalCountries \div limit.n)
      [] OTHER -> Num(-((totalCountries - limit.n - 1) \div (-limit.n)))

\* Math.ceil(totalCountries / limit) for totalCountries >= 0.
CeilDiv(totalCountries, limit) ==
    CASE ~ IsNum(limit) -> NaN
      [] limit.n = 0 -> IF totalCountries = 0 THEN NaN ELSE Infinity
      [] limit.n > 0 -> Num((totalCountries + limit.n - 1) \div limit.n)
      [] OTHER -> Num(-(totalCountries \div (-limit.n)))

\* ToIntegerOrInfinity and the clamping of Array.prototype.slice.
RelativeIndex(x, len) ==
    CASE ~ IsNum(x) -> 0
      [] x.n < 0 -> IF len + x.n < 0 THEN 0 ELSE len + x.n
      [] x.n > len -> len
      [] OTHER -> x.n

\* items.slice(start, end)
Slice(items, start, end) ==
    SubSeq(items, RelativeIndex(start, Len(items)) + 1, RelativeIndex(end, Len(items)))

\* JSON.stringify of a number.
JSONNumber(x) == IF IsNum(x) THEN x ELSE Null

\* The switch on sort_by.
SortKey(sort_by) ==
    CASE sort_by \in {"a_to_z", "z_to_a"} -> "name"
      [] sort_by \in {"population_high_to_low", "population_low_to_high"} -> "population"
      [] sort_by \in {"area_high_to_low", "area_low_to_high"} -> "area"
      [] OTHER -> "name"

SortDirection(sort_by) ==
    IF sort_by \in {"z_to_a", "population_high_to_low", "area_high_to_low"} THEN -1 ELSE 1

\* aValue < bValue on two strings: by code units, a proper prefix first.
RECURSIVE StrLess(_, _)
StrLess(a, b) ==
    CASE b = <<>> -> FALSE
      [] a = <<>> -> TRUE
      [] Head(a) # Head(b) -> Code(Head(a)) < Code(Head(b))
      [] OTHER -> StrLess(Tail(a), Tail(b))

\* a[sortKey] < b[sortKey]: false when either value is undefined.
FieldLess(a, b, sortKey) ==
    /\ sortKey \in DOMAIN a
    /\ sortKey \in DOMAIN b
    /\ IF sortKey = "name" THEN StrLess(a[sortKey], b[sortKey]) ELSE a[sortKey] < b[sortKey]

\* The comparator handed to output.Items.sort.
Compare(a, b, sortKey, sortDirection) ==
    IF FieldLess(a, b, sortKey) THEN -1 * sortDirection
    ELSE IF FieldLess(b, a, sortKey) THEN 1 * sortDirection
    ELSE 0

\* A consistent comparator for the items (ECMAScript, Array.prototype.sort).
Consistent(S, sortKey, sortDirection) ==
    LET cmp(a, b) == Compare(a, b, sortKey, sortDirection)
    IN  \A a, b, c \in S :
            /\ cmp(a, a) = 0
            /\ cmp(a, b) < 0 <=> cmp(b, a) > 0
            /\ (cmp(a, b) = 0 /\ cmp(b, c) = 0) => cmp(a, c) = 0
            /\ (cmp(a, b) < 0 /\ cmp(b, c) < 0) => cmp(a, c) < 0
            /\ (cmp(a, b) = 0 /\ cmp(b, c) < 0) => cmp(a, c) < 0
            /\ (cmp(a, b) < 0 /\ cmp(b, c) = 0) => cmp(a, c) < 0

\* The stable sort of the items by the comparator: each item goes behind the
\* items before it that do not compare greater.
RECURSIVE InsertSorted(_, _, _, _)
InsertSorted(sorted, x, sortKey, sortDirection) ==
    IF sorted = <<>> \/ Compare(sorted[Len(sorted)], x, sortKey, sortDirection) <= 0
    THEN Append(sorted, x)
    ELSE Append(InsertSorted(SubSeq(sorted, 1, Len(sorted) - 1), x, sortKey, sortDirection),
                sorted[Len(sorted)])

RECURSIVE StableSort(_, _, _)
StableSort(items, sortKey, sortDirection) ==
    IF items = <<>> THEN <<>>
    ELSE InsertSorted(StableSort(SubSeq(items, 1, Len(items) - 1), sortKey, sortDirection),
                      items[Len(items)], sortKey, sortDirection)

\* The orders in which a scan may return the items.
RECURSIVE SetToSeqs(_)
SetToSeqs(S) ==
    IF S = {} THEN {<<>>}
    ELSE UNION {{<<x>> \o rest : rest \in SetToSeqs(S \ {x})} : x \in S}

\* output.Items.sort(comparator) for every order the scan may return the
\* items in: the stable sort when the comparator is consistent for the
\* items, an implementation-defined order when it is not.
SortResults(S, sortKey, sortDirection) ==
    IF Consistent(S, sortKey, sortDirection)
    THEN {StableSort(scan, sortKey, sortDirection) : scan \in SetToSeqs(S)}
    ELSE SetToSeqs(S)

\* new RegExp(search, "i") throws a SyntaxError when a group is not closed or
\* not opened.
RECURSIVE Unbalanced(_, _)
Unbalanced(str, open) ==
    CASE str = <<>> -> open # 0
      [] Head(str) = "(" -> Unbalanced(Tail(str), open + 1)
      [] Head(str) = ")" -> open = 0 \/ Unbalanced(Tail(str), open - 1)
      [] OTHER -> Unbalanced(Tail(str), open)

RegExpThrows(search) == Unbalanced(search, 0)

\* searchRegex.source: the pattern, with every "/" escaped.
RECURSIVE RegExpSource(_)
RegExpSource(search) ==
    IF search = <<>> THEN <<>>
    ELSE (IF Head(search) = "/" THEN <<"\\", "/">> ELSE <<Head(search)>>)
             \o RegExpSource(Tail(search))

\* contains(attribute, operand) of a DynamoDB filter expression: the
\* attribute is there and has the operand as a substring, letter case
\* included.
Contains(item, attribute, operand) ==
    /\ attribute \in DOMAIN item
    /\ \E k \in 1..(Len(item[attribute]) - Len(operand) + 1) :
           SubSeq(item[attribute], k, k + Len(operand) - 1) = operand

FilterExpression(item, operand) ==
    \/ Contains(item, "name", operand)
    \/ Contains(item, "region", operand)
    \/ Contains(item, "subregion", operand)

\* if (search): the parameter is there and not empty.
HasSearch(query) == "search" \in DOMAIN query /\ query.search # <<>>

\* docClient.scan(params): the items that pass the filter.
Scanned(query) ==
    IF HasSearch(query)
    THEN {c \in CountryTable : FilterExpression(c, RegExpSource(query.search))}
    ELSE CountryTable

\* A destructured query parameter with its default.
Param(query, name, default) == IF name \in DOMAIN query THEN query[name] ELSE default

NoListing ==
    [pc |-> "idle", statusCode |-> 0, query |-> <<>>, Items |-> <<>>, list |-> <<>>,
     has_next |-> FALSE, has_prev |-> FALSE,
     page |-> Null, pages |-> Null, per_page |-> Null, total |-> 0]

\* The 200 response for output.Items after the sort.
Paginated(query, Items) ==
    LET page == Param(query, "page", <<"1">>)
        limit == Param(query, "limit", <<"1", "0">>)
        skip == Times(Minus(parseInt(page), Num(1)), parseInt(limit))
        totalCountries == Len(Items)
        totalPages == CeilDiv(totalCountries, parseInt(limit))
    IN  [pc |-> "done", statusCode |-> 200, query |-> query, Items |-> Items,
         list |-> Slice(Items, skip, Plus(skip, parseInt(limit))),
         has_next |-> LessThan(parseInt(page), totalPages),
         has_prev |-> GreaterThan(parseInt(page), Num(1)),
         page |-> JSONNumber(parseInt(page)),
         pages |-> JSONNumber(totalPages),
         per_page |-> JSONNumber(parseInt(limit)),
         total |-> totalCountries]

\* getAllCountriesPaginated up to its await: the parameters, the sort
\* criteria and the search filter; an exception answers 500 with empty data.
GetAllCountriesPaginatedStart(query) ==
    /\ listing.pc = "idle"
    /\ IF HasSearch(query) /\ RegExpThrows(query.search)
       THEN listing' = [NoListing EXCEPT !.pc = "done", !.statusCode = 500, !.query = query]
       ELSE listing' = [NoListing EXCEPT !.pc = "scan", !.query = query]
    /\ UNCHANGED <<CountryTable, NeighborsTable, call, addCountryResult, hist, issued, neighborsCall>>

\* await docClient.scan(params), then the sort, the page and the response.
GetAllCountriesPaginatedScan ==
    LET query == listing.query
        sort_by == Param(query, "sort_by", "a_to_z")
    IN  /\ listing.pc = "scan"
        /\ \E Items \in SortResults(Scanned(query), SortKey(sort_by), SortDirection(sort_by)) :
               listing' = Paginated(query, Items)
        /\ UNCHANGED <<CountryTable, NeighborsTable, call, addCountryResult, hist, issued, neighborsCall>>

\* ---------------------------------------------------------- specification
PlainCountry == [name |-> <<"a">>, capital |-> <<"c">>, region |-> <<"r">>, currency |-> <<"e">>]
NamelessCountry == [capital |-> <<"c">>, region |-> <<"r">>, currency |-> <<"e">>]

\* Bodies of addCountry requests next to addNeighbors requests.
PlainBodies == SeqsUpTo({PlainCountry, NamelessCountry}, 2) \ {<<>>}

Init ==
    /\ CountryTable = {}
    /\ NeighborsTable = EmptyBag
    /\ call = [p \in Calls |-> IdleCall]
    /\ addCountryResult = 0
    /\ listing = NoListing
    /\ hist = [lastDone |-> 0, after |-> [p \in Calls |-> 0],
               alone |-> [p \in Calls |-> TRUE], raced |-> {}]
    /\ issued = 0
    /\ neighborsCall = IdleNeighborsCall

Next ==
    \/ \E requestBody \in PlainBodies : AddCountry(requestBody, MaxCountries)
    \/ \E p \in Calls, countryID \in IdSpace, neighborData \in SeqsUpTo(IdSpace, MaxNeighbors) :
          AddNeighborsStart(p, countryID, neighborData)
    \/ \E p \in Calls : AddNeighborsFetchCountry(p)
    \/ \E p \in Calls : AddNeighborsFetchAllCountryIds(p)
    \/ \E p \in Calls : AddNeighborsFetchNeighbor(p)
    \/ \E p \in Calls : AddNeighborsAddNeighbor(p)

Spec == Init /\ [][Next]_vars

\* Bodies of addCountry requests next to listing requests: countries with
\* and without population, area and subregion, and one without a name.
Alpha == [name |-> <<"a">>, capital |-> <<"c">>, region |-> <<"r">>, currency |-> <<"e">>,
          population |-> 2]
Beta == [name |-> <<"B">>, capital |-> <<"c">>, region |-> <<"r", "a">>, currency |-> <<"e">>,
         population |-> 1, area |-> 1]
Gamma == [name |-> <<"a", "b">>, capital |-> <<"c">>, region |-> <<"e">>, currency |-> <<"e">>,
          area |-> 2, subregion |-> <<"A">>]

ListedBodies == {<<c>> : c \in {Alpha, Beta, Gamma, NamelessCountry}} \cup {<<Alpha, Beta>>}

\* Query strings: a parameter is there or not.  Pages and limits are
\* combined with two sort orders, every sort order and every search text
\* with a few pages and limits.
Query(page, limit, sort_by, search) ==
    LET full == [page |-> page, limit |-> limit, sort_by |-> sort_by, search |-> search]
        there == {k \in {"page", "limit"} : full[k] # <<"absent">>}
                     \cup (IF sort_by # "absent" THEN {"sort_by"} ELSE {})
                     \cup (IF search # <<"absent">> THEN {"search"} ELSE {})
    IN  [k \in there |-> full[k]]

PageStrings == {<<"absent">>, <<"1">>, <<"2">>, <<"3">>, <<"a">>}
LimitStrings == {<<"absent">>, <<"1">>, <<"2">>, <<"0">>, <<"2", "a">>, <<>>}
SortBys == {"absent", "a_to_z", "z_to_a", "population_high_to_low", "population_low_to_high",
            "area_high_to_low", "area_low_to_high", "newest"}
SearchStrings == {<<"absent">>, <<"a">>, <<"A">>, <<"(">>, <<>>}

QueryStrings ==
    {Query(page, limit, sort_by, search) :
        page \in PageStrings, limit \in LimitStrings,
        sort_by \in {"absent", "population_low_to_high"},
        search \in {<<"absent">>, <<"a">>}}
    \cup
    {Query(page, limit, sort_by, search) :
        page \in {<<"absent">>, <<"2">>}, limit \in {<<"absent">>, <<"1">>},
        sort_by \in SortBys, search \in {<<"absent">>, <<"a">>}}
    \cup
    {Query(page, limit, "absent", search) :
        page \in {<<"absent">>, <<"2">>}, limit \in {<<"absent">>, <<"1">>},
        search \in SearchStrings}

NextList ==
    \/ \E requestBody \in ListedBodies : AddCountry(requestBody, MaxListed)
    \/ \E query \in QueryStrings : GetAllCountriesPaginatedStart(query)
    \/ GetAllCountriesPaginatedScan

SpecList == Init /\ [][NextList]_vars

\* Requests against a store that may reject an operation and may lose a
\* country item: addCountry, one addNeighbors request with at most one
\* neighbor, and one getCountryNeighbors request.
FaultCalls == {1}

NextFault ==
    \/ \E requestBody \in PlainBodies : AddCountry(requestBody, MaxCountries)
    \/ \E id \in IdSpace : DeleteCountryItem(id)
    \/ \E p \in FaultCalls, countryID \in IdSpace, neighborData \in SeqsUpTo(IdSpace, 1) :
          AddNeighborsStart(p, countryID, neighborData)
    \/ \E p \in FaultCalls : AddNeighborsFetchCountry(p)
    \/ \E p \in FaultCalls : AddNeighborsFetchAllCountryIds(p)
    \/ \E p \in FaultCalls : AddNeighborsFetchNeighbor(p)
    \/ \E p \in FaultCalls : AddNeighborsAddNeighbor(p)
    \/ \E p \in FaultCalls, error \in StoreErrors : AddNeighborsStoreFails(p, error)
    \/ \E countryID \in IdSpace : GetCountryNeighborsStart(countryID)
    \/ GetCountryNeighborsFetchCountry
    \/ GetCountryNeighborsFetchNeighbors
    \/ GetCountryNeighborsFetchNeighborCountries
    \/ \E error \in StoreErrors : GetCountryNeighborsStoreFails(error)

SpecFault == Init /\ [][NextFault]_vars

\* ------------------------------------------------------------ properties
Done(p) == call[p].pc = "done"

\* Number of items NeighborsTable holds under the key (countryID, neighborId).
CopiesOf(countryID, neighborId) ==
    CopiesIn([countryID |-> countryID, neighborId |-> neighborId], NeighborsTable)

ErrorIds(errors) == [k \in 1..Len(errors) |-> errors[k].id]

NeighborIdsOf(puts) == [k \in 1..Len(puts) |-> puts[k].neighborId]

Occurrences(s, x) == Cardinality({k \in 1..Len(s) : s[k] = x})

\* C1: every relation of the neighbor table has a countryID and a neighborId
\* that are identifiers of countries of the country table.
C1_RelationsReferenceCountries ==
    \A it \in BagToSet(NeighborsTable) :
        /\ it.countryID \in CountryIds(CountryTable)
        /\ it.neighborId \in CountryIds(CountryTable)

\* A call has written a relation and has rejected an identifier that is not a
\* country's.
C1_Witness ==
    \E p \in Calls :
        /\ Done(p)
        /\ call[p].puts # <<>>
        /\ \E k \in 1..Len(call[p].errors) :
               call[p].errors[k] = InvalidError(call[p].neighborData[1])
        /\ BagToSet(NeighborsTable) # {}

\* C2: when addNeighbors(countryID, [n]) has answered with n in added and the
\* next request, run without any other request's step, is the same
\* addNeighbors(countryID, [n]), then that second call lists n in errors and
\* not in added, writes nothing, and the table holds one relation
\* (countryID, n).
SecondOfTwo(p, q, n) ==
    /\ p # q
    /\ Done(p) /\ Done(q)
    /\ hist.lastDone = q /\ hist.after[q] = p /\ hist.alone[q]
    /\ call[p].countryID = call[q].countryID
    /\ call[p].neighborData = <<n>> /\ call[q].neighborData = <<n>>
    /\ n \in Range(call[p].result.neighbors)

C2_SecondAddRejected ==
    \A p, q \in Calls : \A n \in IdSpace :
        SecondOfTwo(p, q, n) =>
            /\ n \in Range(ErrorIds(call[q].result.errors))
            /\ n \notin Range(call[q].result.neighbors)
            /\ call[q].puts = <<>>
            /\ NeighborsTable = call[q].before
            /\ CopiesOf(call[q].countryID, n) = 1

C2_Witness == \E p, q \in Calls : \E n \in IdSpace : SecondOfTwo(p, q, n)

\* C3: addNeighbors handles every proposed identifier on its own and in
\* order: an identifier that is no country's, or whose relation exists, gets
\* one entry in errors and no write, and the later ones are still handled;
\* every other one is written and listed in added.  So the proposed list is
\* an interleaving of added and of the identifiers of errors, and a call that
\* runs alone with one valid new and one invalid identifier answers 200 with
\* one added and one error.
RECURSIVE IsInterleaving(_, _, _)
IsInterleaving(s, a, b) ==
    IF s = <<>> THEN a = <<>> /\ b = <<>>
    ELSE \/ a # <<>> /\ Head(a) = Head(s) /\ IsInterleaving(Tail(s), Tail(a), b)
         \/ b # <<>> /\ Head(b) = Head(s) /\ IsInterleaving(Tail(s), a, Tail(b))

OneValidOneInvalid(p) ==
    /\ Done(p) /\ call[p].country /\ hist.alone[p]
    /\ Len(call[p].neighborData) = 2
    /\ \E v, x \in 1..2 :
          /\ v # x
          /\ call[p].neighborData[x] \notin CountryIds(CountryTable)
          /\ call[p].neighborData[v] \in call[p].existingCountryIds
          /\ ~ BagIn([countryID |-> call[p].countryID, neighborId |-> call[p].neighborData[v]],
                     call[p].before)

C3_EachElementOnItsOwn ==
    \A p \in Calls :
        (Done(p) /\ call[p].country) =>
            LET c == call[p]
                r == c.result
            IN  /\ r.errors = c.errors
                /\ r.statusCode = 200 => r.neighbors = c.successfulAdditions
                /\ IsInterleaving(c.neighborData, c.successfulAdditions, ErrorIds(c.errors))
                /\ \A k \in 1..Len(c.errors) :
                      \/ /\ c.errors[k] = InvalidError(c.errors[k].id)
                         /\ c.errors[k].id \notin c.existingCountryIds
                      \/ /\ c.errors[k] = ExistsError(c.errors[k].id)
                         /\ c.errors[k].id \in c.existingCountryIds
                         /\ CopiesOf(c.countryID, c.errors[k].id) >= 1
                /\ \A k \in 1..Len(c.successfulAdditions) :
                      c.successfulAdditions[k] \in c.existingCountryIds
                /\ c.puts = [k \in 1..Len(c.successfulAdditions) |->
                                [countryID |-> c.countryID,
                                 neighborId |-> c.successfulAdditions[k]]]
                /\ OneValidOneInvalid(p) =>
                      /\ Len(r.neighbors) = 1
                      /\ Len(r.errors) = 1
                      /\ r.statusCode = 200

\* A call with an invalid identifier before a valid new one has answered.
C3_Witness ==
    \E p \in Calls :
        /\ OneValidOneInvalid(p)
        /\ call[p].neighborData[1] \notin call[p].existingCountryIds

\* C4: for a source country that exists, addNeighbors answers 400 with an
\* empty added list exactly when the call wrote no relation (the table is
\* then as the call found it, when no other request ran), and 200 with the
\* added list and the error list exactly when it wrote at least one.
C4_StatusByAdditions ==
    \A p \in Calls :
        (Done(p) /\ call[p].country) =>
            LET c == call[p]
                r == c.result
            IN  /\ r.statusCode \in {200, 400}
                /\ r.statusCode = 400 <=> c.puts = <<>>
                /\ r.statusCode = 200 <=> c.puts # <<>>
                /\ r.statusCode = 400 =>
                      /\ r.neighbors = <<>>
                      /\ r.errors = c.errors
                      /\ hist.alone[p] /\ hist.lastDone = p => NeighborsTable = c.before
                /\ r.statusCode = 200 =>
                      /\ r.neighbors = NeighborIdsOf(c.puts)
                      /\ r.errors = c.errors

\* A call has answered 200 with an error next to an addition, and another has
\* answered 400.

C4_Witness ==
    /\ \E p \in Calls :
          /\ Done(p) /\ call[p].country
          /\ call[p].result.statusCode = 200
          /\ call[p].result.errors # <<>>
    /\ \E p \in Calls :
          /\ Done(p) /\ call[p].country
          /\ call[p].result.statusCode = 400
          /\ call[p].result.errors # <<>>

\* The step is one of call p after its start.
StepOf(p) == call[p].pc # "idle" /\ call'[p] # call[p]

\* C5: when countryID is not the identifier of a country, addNeighbors
\* answers 404 whatever the proposed list holds, handles none of its elements
\* and leaves the neighbor table as it is.
C5_UnknownCountryAborts ==
    [][\A p \in Calls :
          (/\ call[p].pc = "fetchCountryById"
           /\ call'[p] # call[p]
           /\ call[p].countryID \notin CountryIds(CountryTable)) =>
              /\ call'[p].pc = "done"
              /\ call'[p].result.statusCode = 404
              /\ call'[p].i = 1
              /\ call'[p].errors = <<>>
              /\ call'[p].successfulAdditions = <<>>
              /\ call'[p].puts = <<>>
              /\ call'[p].result.neighbors = <<>>
              /\ NeighborsTable' = NeighborsTable]_vars

\* A call with a non-empty proposed list of existing countries has answered
\* 404 and has handled no element.
C5_Witness ==
    \E p \in Calls :
        /\ Done(p) /\ ~ call[p].country
        /\ call[p].result.statusCode = 404
        /\ call[p].neighborData # <<>>
        /\ Range(call[p].neighborData) \subseteq CountryIds(CountryTable)
        /\ call[p].i = 1

\* C6: two addNeighbors calls for one pair can both pass the duplicate check
\* before either writes; both then list the identifier in added, neither
\* reports it as a duplicate, and the table holds one relation for the pair.
BothAnswered(r) ==
    /\ \A p \in r.calls : Done(p) /\ Occurrences(call[p].neighborData, r.neighborId) = 1

C6_RaceWritesOnce ==
    /\ \A r \in hist.raced :
          BothAnswered(r) =>
                /\ \A p \in r.calls :
                      /\ r.neighborId \in Range(call[p].result.neighbors)
                      /\ r.neighborId \notin Range(ErrorIds(call[p].result.errors))
                      /\ call[p].result.statusCode = 200
                /\ CopiesOf(r.countryID, r.neighborId) = 1
    /\ \A p \in Calls : \A k \in 1..Len(call[p].puts) :
          CopiesIn(call[p].puts[k], NeighborsTable) = 1

\* Two calls have passed the duplicate check for one pair before either
\* wrote it, and both have answered.
C6_Witness == \E r \in hist.raced : BothAnswered(r)

\* C7: addNeighbors(A, proposed) writes relations of partition key A only: a
\* step of the call that adds B stores (A, B), and no step of the call
\* changes a relation whose countryID is not A, so (B, A) is there after the
\* step only if it was there before.
C7_WritesOwnPartitionOnly ==
    [][\A p \in Calls :
          StepOf(p) =>
              LET A == call[p].countryID
                  added == call[p].successfulAdditions
                  added2 == call'[p].successfulAdditions
              IN  /\ \A it \in BagToSet(NeighborsTable) \cup BagToSet(NeighborsTable') :
                        it.countryID # A =>
                            CopiesIn(it, NeighborsTable') = CopiesIn(it, NeighborsTable)
                  /\ added2 # added =>
                        /\ Len(added2) = Len(added) + 1
                        /\ BagIn([countryID |-> A, neighborId |-> added2[Len(added2)]],
                                 NeighborsTable')
                  /\ added2 = added => NeighborsTable' = NeighborsTable]_vars

\* (A, B) is stored with A # B and (B, A) is not.
C7_Witness ==
    \E p \in Calls : \E k \in 1..Len(call[p].puts) :
        LET it == call[p].puts[k]
        IN  /\ Done(p)
            /\ it.countryID # it.neighborId
            /\ BagIn(it, NeighborsTable)
            /\ CopiesOf(it.neighborId, it.countryID) = 0

\* The answered listing and its inputs.
Listed == listing.pc = "done" /\ listing.statusCode = 200

PageString == Param(listing.query, "page", <<"1">>)
LimitString == Param(listing.query, "limit", <<"1", "0">>)

\* The string is the decimal numeral of a positive integer.
PositiveInteger(str) ==
    /\ str # <<>>
    /\ \A k \in 1..Len(str) : str[k] \in Digits
    /\ DigitsValue(str, 0) > 0

Min(a, b) == IF a < b THEN a ELSE b
Max(a, b) == IF a > b THEN a ELSE b

\* The response is page number page of the records, limit to a page.
IsPage(page, limit) ==
    LET records == listing.Items
        total == Len(records)
        first == (page - 1) * limit
    IN  /\ listing.total = total
        /\ IsNum(listing.pages)
        /\ listing.pages.n * limit >= total
        /\ (listing.pages.n - 1) * limit < total
        /\ Len(listing.list) = Max(0, Min(limit, total - first))
        /\ \A k \in 1..Len(listing.list) : listing.list[k] = records[first + k]
        /\ listing.has_next = (page < listing.pages.n)
        /\ listing.has_prev = (page > 1)
        /\ listing.page = Num(page)
        /\ listing.per_page = Num(limit)

\* C8: for positive integers page and limit and every filtered and sorted
\* record sequence the listing answers total = the number of records,
\* pages = ceil(total / limit), the records from (page - 1) * limit up to
\* limit of them (none, and no error, when page is beyond pages),
\* hasNext = (page < pages) and hasPrev = (page > 1).
C8_Pagination ==
    (/\ listing.pc = "done"
     /\ ~ (HasSearch(listing.query) /\ RegExpThrows(listing.query.search))
     /\ PositiveInteger(PageString)
     /\ PositiveInteger(LimitString)) =>
        /\ listing.statusCode = 200
        /\ IsPage(DigitsValue(PageString, 0), DigitsValue(LimitString, 0))

\* A last page that is not full, and a page beyond the last that is empty.
C8_Witness ==
    /\ Listed
    /\ PositiveInteger(PageString)
    /\ PositiveInteger(LimitString)
    /\ listing.has_prev
    /\ listing.list # <<>>
    /\ Len(listing.list) < DigitsValue(LimitString, 0)

\* C9: when page or limit is there and does not parse as a number, the
\* listing does not fail and answers as for the default of that parameter
\* (page 1, limit 10).
NotANumber(query, name) == name \in DOMAIN query /\ parseInt(query[name]) = NaN

Defaulted(query, name, str, default) ==
    IF NotANumber(query, name) THEN default ELSE DigitsValue(str, 0)

C9_NonNumericAsDefault ==
    (/\ listing.pc = "done"
     /\ ~ (HasSearch(listing.query) /\ RegExpThrows(listing.query.search))
     /\ NotANumber(listing.query, "page") \/ NotANumber(listing.query, "limit")
     /\ NotANumber(listing.query, "page") \/ PositiveInteger(PageString)
     /\ NotANumber(listing.query, "limit") \/ PositiveInteger(LimitString)) =>
        /\ listing.statusCode = 200
        /\ IsPage(Defaulted(listing.query, "page", PageString, 1),
                  Defaulted(listing.query, "limit", LimitString, 10))

\* C10: the comparator of the sort is a total order on the sort field in
\* which a record without the field is less than every record with it, so an
\* ascending sort puts the records without the field before all the others.
C10_MissingSortsFirst ==
    Listed =>
        LET sort_by == Param(listing.query, "sort_by", "a_to_z")
            sortKey == SortKey(sort_by)
            records == listing.Items
        IN  /\ \A a, b \in Range(records) :
                  (sortKey \notin DOMAIN a /\ sortKey \in DOMAIN b) =>
                      /\ Compare(a, b, sortKey, 1) < 0
                      /\ Compare(b, a, sortKey, 1) > 0
            /\ SortDirection(sort_by) = 1 =>
                  \A j, k \in 1..Len(records) :
                      (sortKey \in DOMAIN records[j] /\ sortKey \notin DOMAIN records[k]) => k < j

\* The lower case letter of a character of the alphabet.
ToLowerCase(ch) ==
    CASE ch = "A" -> "a"
      [] ch = "B" -> "b"
      [] OTHER -> ch

LowerCased(str) == [k \in 1..Len(str) |-> ToLowerCase(str[k])]

\* The attribute is there and has the text, character by character, as a
\* substring when letter case is ignored.
ContainsIgnoringCase(item, attribute, text) ==
    /\ attribute \in DOMAIN item
    /\ \E k \in 1..(Len(item[attribute]) - Len(text) + 1) :
           LowerCased(SubSeq(item[attribute], k, k + Len(text) - 1)) = LowerCased(text)

MatchesSearch(item, text) ==
    \/ ContainsIgnoringCase(item, "name", text)
    \/ ContainsIgnoringCase(item, "region", text)
    \/ ContainsIgnoringCase(item, "subregion", text)

\* C11: when search is there, the listing goes on to the scan whatever
\* characters search has, and the records it filters down to and counts in
\* total are exactly the stored countries whose name, region or subregion
\* has the search text as a substring, letter case ignored and every
\* character of search taken literally.
C11_SearchIgnoresCaseLiterally ==
    [][/\ (listing.pc = "idle" /\ listing'.pc # "idle" /\ HasSearch(listing'.query)) =>
              listing'.pc = "scan"
       /\ (listing.pc = "scan" /\ listing'.pc = "done" /\ HasSearch(listing.query)) =>
              LET matching == {c \in CountryTable : MatchesSearch(c, listing.query.search)}
              IN  /\ listing'.statusCode = 200
                  /\ Range(listing'.Items) = matching
                  /\ listing'.total = Cardinality(matching)]_vars

\* C12: when a store operation fails, the store being unreachable or
\* rejecting the operation, at any step of addNeighbors or of
\* getCountryNeighbors, the handler answers with status 500.
C12_StoreFailureAnswers500 ==
    [][/\ \A p \in Calls, error \in StoreErrors :
              AddNeighborsStoreFails(p, error) => call'[p].result.statusCode = 500
       /\ \A error \in StoreErrors :
              GetCountryNeighborsStoreFails(error) => neighborsCall'.result.statusCode = 500]_vars

\* The response of getCountryNeighbors when the source country is absent.
SourceAbsentResponse ==
    [statusCode |-> 404, message |-> "Some Error", countries |-> <<>>,
     error |-> "{\"error\":\"not found\"}"]

\* C13: when the source country exists and one of its stored relations names
\* a neighbor that has no country item, getCountryNeighbors answers with a
\* status of the 500 class and not with the response it gives when the
\* source country is absent: the neighbor is not dropped and not reported
\* as not found.
C13_DanglingNeighborIsServerError ==
    (/\ neighborsCall.pc = "done"
     /\ neighborsCall.country
     /\ neighborsCall.missing # {}) =>
        /\ neighborsCall.result.statusCode \in 500..599
        /\ neighborsCall.result # SourceAbsentResponse

====
